---- MODULE Spec2Model ----
(***************************************************************************)
(* A model of magnolia, a scripting toolkit over a 3D application's        *)
(* scene graph: object alignment and distribution (objects/align.py),      *)
(* object copying and collection membership (objects/object.py,            *)
(* scene/collection.py) and get-or-create materials (objects/material.py). *)
(*                                                                         *)
(* The host's data (objects, collections, materials) is the state.  Python *)
(* floats are modelled as exact rationals <<numerator, denominator>>, so   *)
(* rounding is outside the model.                                          *)
(***************************************************************************)
EXTENDS Integers, Sequences, FiniteSets, TLC

\* ------------------------------------------------------------------ bounds

\* Number of objects in the scene.
MaxObjs == 3
\* Objects start at integer coordinates 0..MaxCoord on every axis.
MaxCoord == 2

\* ------------------------------------------------- numbers (Python floats)

RECURSIVE GCD(_, _)
GCD(a, b) == IF b = 0 THEN a ELSE GCD(b, a % b)

Abs(n) == IF n < 0 THEN -n ELSE n

\* The rational n / d in lowest terms with a positive denominator.
Norm(n, d) ==
    LET s == IF d < 0 THEN -1 ELSE 1
        g == GCD(Abs(n), Abs(d))
    IN  <<(s * n) \div g, (s * d) \div g>>

R(n) == <<n, 1>>

RAdd(a, b) == Norm(a[1] * b[2] + b[1] * a[2], a[2] * b[2])

\* a + n for an integer n: still in lowest terms.
RAddInt(a, n) == <<a[1] + n * a[2], a[2]>>

RNeg(a) == <<-a[1], a[2]>>

RSub(a, b) == RAdd(a, RNeg(b))

RMul(a, b) == Norm(a[1] * b[1], a[2] * b[2])

\* Python's true division a / k by a non-zero integer count.
RDiv(a, k) == Norm(a[1], a[2] * k)

RLt(a, b) == a[1] * b[2] < b[1] * a[2]

RLe(a, b) == a[1] * b[2] <= b[1] * a[2]

RMin2(a, b) == IF RLt(b, a) THEN b ELSE a

RMax2(a, b) == IF RLt(a, b) THEN b ELSE a

\* sum(values), min(values), max(values) of a non-empty list.
RECURSIVE sum(_)
sum(values) ==
    IF values = <<>> THEN R(0)
    ELSE LET rest == sum(Tail(values)) IN RAdd(Head(values), rest)

RECURSIVE min(_)
min(values) ==
    IF Len(values) = 1 THEN values[1]
    ELSE LET rest == min(Tail(values)) IN RMin2(Head(values), rest)

RECURSIVE max(_)
max(values) ==
    IF Len(values) = 1 THEN values[1]
    ELSE LET rest == max(Tail(values)) IN RMax2(Head(values), rest)

\* sorted(s, key=...): Python's stable sort, by insertion from the left;
\* key is a function from the elements to their sort keys.
RECURSIVE Insert(_, _, _)
Insert(done, e, key) ==
    IF done = <<>> THEN <<e>>
    ELSE IF RLt(key[e], key[Head(done)])
         THEN <<e>> \o done
         ELSE LET rest == Insert(Tail(done), e, key) IN <<Head(done)>> \o rest

RECURSIVE sorted(_, _)
sorted(s, key) ==
    IF s = <<>> THEN <<>>
    ELSE LET front == sorted(SubSeq(s, 1, Len(s) - 1), key)
         IN  Insert(front, s[Len(s)], key)

\* ------------------------------------------------------------------- state

VARIABLES
    matrix_world,   \* obj.matrix_world: [linear |-> 3x3 rows, translation |-> vector]
    location,       \* obj.location
    bound_box,      \* obj.bound_box: the eight corners, in the object's own space
    call,           \* the library call that ran last, with its arguments
    original,       \* the data that call acted on, as it was before the call
    returned,       \* what that call returned
    objects,        \* bpy.data.objects: name, parent, scale and mesh of each object
    meshes,         \* bpy.data.meshes: the name of each mesh
    collection_objects, \* collection.objects, for the scene collection and the others
    materials,      \* bpy.data.materials
    scenes,         \* bpy.data.scenes: the name of each scene, in the host's order
    sequences,      \* the strips of the current scene's sequence editor
    render,         \* bpy.context.scene.render: resolution_x and resolution_y
    vertices        \* obj.data.vertices: each vertex's co, in the object's own space

vars == <<matrix_world, location, bound_box, call, original, returned,
          objects, meshes, collection_objects, materials,
          scenes, sequences, render, vertices>>

\* The parts of the host's data an operation does not touch.
Empty == <<>>

NoObjectData ==
    /\ objects = Empty /\ meshes = Empty /\ collection_objects = Empty

NoGeometry ==
    /\ matrix_world = Empty /\ location = Empty /\ bound_box = Empty

NoSceneData ==
    /\ scenes = Empty /\ sequences = Empty

NoSlideData ==
    /\ render = Empty /\ vertices = Empty

Objs == 1..MaxObjs

Axis == {"x", "y", "z"}

AlignmentMode == {"min", "center", "max"}

NoCall == [op |-> "none"]

None == "None"

\* ------------------------------------------------- the host's object model

\* The eight corners of the box lo..hi in the host's order.
Corners(lo, hi) ==
    << <<lo[1], lo[2], lo[3]>>, <<lo[1], lo[2], hi[3]>>,
       <<lo[1], hi[2], hi[3]>>, <<lo[1], hi[2], lo[3]>>,
       <<hi[1], lo[2], lo[3]>>, <<hi[1], lo[2], hi[3]>>,
       <<hi[1], hi[2], hi[3]>>, <<hi[1], hi[2], lo[3]>> >>

Identity == << <<1, 0, 0>>, <<0, 1, 0>>, <<0, 0, 1>> >>

\* Mirrored on x and stretched on y.
Mirrored == << <<-1, 0, 0>>, <<0, 2, 0>>, <<0, 0, 1>> >>

\* An eighth of a turn about z (with a scale that keeps the entries whole).
Turned == << <<1, -1, 0>>, <<1, 1, 0>>, <<0, 0, 1>> >>

\* matrix_world @ Vector(vert)
Transform(m, vert) ==
    [r \in 1..3 |->
        RAddInt(m.translation[r],
                m.linear[r][1] * vert[1] + m.linear[r][2] * vert[2]
                + m.linear[r][3] * vert[3])]

\* The host keeps an unparented object's location and the translation of its
\* matrix_world equal: writing either one moves the object.
set_location(st, obj, k, v) ==
    [st EXCEPT !.location[obj][k] = v, !.matrix_world[obj].translation[k] = v]

set_translation(st, obj, k, v) ==
    [st EXCEPT !.matrix_world[obj].translation[k] = v, !.location[obj][k] = v]

\* 0 if axis == "x" else 1 if axis == "y" else 2, counted from 1 here.
axis_index(axis) == IF axis = "x" THEN 1 ELSE IF axis = "y" THEN 2 ELSE 3

validate_axis(axis) == axis \in {"x", "y", "z"}

\* The list of a set of objects in the order the host lists them (as
\* selected_objects does); a list argument names each object once.
RECURSIVE ListOf(_)
ListOf(set) ==
    IF set = {} THEN <<>>
    ELSE LET first == CHOOSE o \in set : \A p \in set : o <= p
         IN  <<first>> \o ListOf(set \ {first})

TargetLists == {ListOf(set) : set \in SUBSET Objs}

Scene == [matrix_world |-> matrix_world, location |-> location, bound_box |-> bound_box]

\* -------------------------------------------------------------- bounding_box

\* A slip: only the corners the object's own space calls least and greatest.
RECURSIVE world_verts_corners(_, _)
world_verts_corners(st, targets) ==
    IF targets = <<>> THEN <<>>
    ELSE LET target == Head(targets)
         IN  <<Transform(st.matrix_world[target], st.bound_box[target][1]),
               Transform(st.matrix_world[target], st.bound_box[target][7])>>
             \o world_verts_corners(st, Tail(targets))

\* Every world-space corner of every target.
RECURSIVE world_verts(_, _)
world_verts(st, targets) ==
    IF targets = <<>> THEN <<>>
    ELSE LET target == Head(targets)
         IN  [i \in 1..8 |-> Transform(st.matrix_world[target], st.bound_box[target][i])]
             \o world_verts(st, Tail(targets))

\* min(min_x, vert.x) over all verts starting from infinity is the least vert.x.
fold_min(verts, k) == min([i \in 1..Len(verts) |-> verts[i][k]])

fold_max(verts, k) == max([i \in 1..Len(verts) |-> verts[i][k]])

bounding_box(st, targets) ==
    IF targets = <<>> THEN << <<R(0), R(0), R(0)>>, <<R(0), R(0), R(0)>> >>
    ELSE LET verts == world_verts(st, targets)
         IN  << [k \in 1..3 |-> fold_min(verts, k)],
                [k \in 1..3 |-> fold_max(verts, k)] >>

\* ---------------------------------------------------------------------- align

\* A slip: the centre as the middle of the extremes, not the mean.
align_value_midrange(mode, values) ==
    IF mode = "min" THEN min(values)
    ELSE IF mode = "center" THEN RDiv(RAdd(min(values), max(values)), 2)
    ELSE max(values)

\* The value all objects are aligned to (the match statement on mode).
align_value(mode, values) ==
    IF mode = "min" THEN min(values)
    ELSE IF mode = "center" THEN RDiv(sum(values), Len(values))
    ELSE max(values)

\* A slip: the centre of a box taken to be its leading edge.
box_value_edge(box, k, mode) ==
    IF mode = "max" THEN box[2][k] ELSE box[1][k]

\* The min, center or max of one bounding box along an axis.
box_value(box, k, mode) ==
    IF mode = "min" THEN box[1][k]
    ELSE IF mode = "center" THEN RDiv(RAdd(box[1][k], box[2][k]), 2)
    ELSE box[2][k]

\* for obj in targets: setattr(obj.matrix_world.translation, axis, value)
RECURSIVE align_set_all(_, _, _, _)
align_set_all(st, targets, k, value) ==
    IF targets = <<>> THEN st
    ELSE LET moved == set_translation(st, Head(targets), k, value)
         IN  align_set_all(moved, Tail(targets), k, value)

\* for obj in targets: move obj by value - (its own current box value)
RECURSIVE align_move_all(_, _, _, _, _)
align_move_all(st, targets, k, mode, value) ==
    IF targets = <<>> THEN st
    ELSE LET obj == Head(targets)
             box == bounding_box(st, <<obj>>)
             current_value == box_value(box, k, mode)
             difference == RSub(value, current_value)
             moved == set_location(st, obj, k, RAdd(st.location[obj][k], difference))
         IN  align_move_all(moved, Tail(targets), k, mode, value)

align(st, targets, axis, mode, use_locations) ==
    LET k == axis_index(axis) IN
    IF targets = <<>> THEN st
    ELSE IF use_locations
    THEN LET values == [i \in 1..Len(targets) |->
                           st.matrix_world[targets[i]].translation[k]]
         IN  align_set_all(st, targets, k, align_value(mode, values))
    ELSE LET boxes == [i \in 1..Len(targets) |-> bounding_box(st, <<targets[i]>>)]
             values == [i \in 1..Len(targets) |-> box_value(boxes[i], k, mode)]
         IN  align_move_all(st, targets, k, mode, align_value(mode, values))

\* -------------------------------------------------------------------- alignTo

\* for obj in group: move obj by difference along the axis
RECURSIVE alignTo_move_all(_, _, _, _)
alignTo_move_all(st, group, k, difference) ==
    IF group = <<>> THEN st
    ELSE LET obj == Head(group)
             moved == set_translation(st, obj, k,
                          RAdd(st.matrix_world[obj].translation[k], difference))
         IN  alignTo_move_all(moved, Tail(group), k, difference)

\* A slip: the difference taken the wrong way round.
alignTo_reversed(st, target, group, axis) ==
    LET k == axis_index(axis) IN
    IF group = <<>> THEN st
    ELSE LET target_location == st.matrix_world[target].translation[k]
             group_location ==
                 RDiv(sum([i \in 1..Len(group) |->
                              st.matrix_world[group[i]].translation[k]]),
                      Len(group))
             difference == RSub(group_location, target_location)
         IN  alignTo_move_all(st, group, k, difference)

alignTo(st, target, group, axis) ==
    LET k == axis_index(axis) IN
    IF group = <<>> THEN st
    ELSE LET target_location == st.matrix_world[target].translation[k]
             group_location ==
                 RDiv(sum([i \in 1..Len(group) |->
                              st.matrix_world[group[i]].translation[k]]),
                      Len(group))
             difference == RSub(target_location, group_location)
         IN  alignTo_move_all(st, group, k, difference)

\* ----------------------------------------------------------------- distribute

\* for i, obj in enumerate(targets): place obj at min_value + interval * i
RECURSIVE distribute_place_all(_, _, _, _, _, _)
distribute_place_all(st, targets, i, k, min_value, interval) ==
    IF i >= Len(targets) THEN st
    ELSE LET moved == set_translation(st, targets[i + 1], k,
                          RAdd(min_value, RMul(interval, R(i))))
         IN  distribute_place_all(moved, targets, i + 1, k, min_value, interval)

\* for i in range(1, len(data)): close or open the space before data[i]
RECURSIVE distribute_space_all(_, _, _, _, _, _)
distribute_space_all(st, data, i, k, space_per_object, prev_max) ==
    IF i >= Len(data) THEN st
    ELSE LET current_object == data[i + 1]
             current_bounding == bounding_box(st, <<current_object>>)
             current_min == current_bounding[1][k]
             current_max == current_bounding[2][k]
             space == RSub(current_min, prev_max)
             difference == RSub(space_per_object, space)
             moved == set_location(st, current_object, k,
                          RAdd(st.location[current_object][k], difference))
             next_max == RAdd(current_max, difference)
         IN  distribute_space_all(moved, data, i + 1, k, space_per_object, next_max)

\* A slip: the targets left in the order given.
sort_by_location_unsorted(st, targets, k) == targets

sort_by_leading_edge_unsorted(st, targets, k) == targets

\* sorted(targets, key=...) on the location along the axis
sort_by_location(st, targets, k) ==
    LET key == [o \in Objs |-> st.matrix_world[o].translation[k]]
    IN  sorted(targets, key)

\* sorted(data, key=lambda x: x["min"]): by leading edge
sort_by_leading_edge(st, targets, k) ==
    LET key == [o \in Objs |-> bounding_box(st, <<o>>)[1][k]]
    IN  sorted(targets, key)

distribute(st, targets, axis, use_locations) ==
    LET k == axis_index(axis)
        n == Len(targets)
    IN
    IF n < 2 THEN st
    ELSE IF use_locations
    THEN LET ordered == sort_by_location(st, targets, k)
             min_value == st.matrix_world[ordered[1]].translation[k]
             interval ==
                 RDiv(RSub(st.matrix_world[ordered[n]].translation[k], min_value),
                      n - 1)
         IN  distribute_place_all(st, ordered, 0, k, min_value, interval)
    ELSE LET mins == [i \in 1..n |-> bounding_box(st, <<targets[i]>>)[1][k]]
             maxs == [i \in 1..n |-> bounding_box(st, <<targets[i]>>)[2][k]]
             size_used == sum([i \in 1..n |-> RSub(maxs[i], mins[i])])
             data == sort_by_leading_edge(st, targets, k)
             min_value == min(mins)
             max_value == max(maxs)
             total_size == RSub(max_value, min_value)
             total_space == RSub(total_size, size_used)
             space_per_object == RDiv(total_space, n - 1)
             prev_max == bounding_box(st, <<data[1]>>)[2][k]
         IN  distribute_space_all(st, data, 1, k, space_per_object, prev_max)

\* ---------------------------------------------------- the geometry operations

\* The scene the alignment functions are called on: MaxObjs unparented objects
\* of different shapes and orientations, each at integer coordinates.
BoxOf(o) == Corners(<<-o, 0, -1>>, <<o, 1, o>>)

LinearOf(o) == IF o % 3 = 1 THEN Identity ELSE IF o % 3 = 2 THEN Mirrored ELSE Turned

\* One placement per coordinate c: every axis sees every coordinate.
PlacementOf(o, c) == <<R(c), R((c + o) % (MaxCoord + 1)), R(MaxCoord - c)>>

InitGeometry ==
    /\ \E place \in [Objs -> 0..MaxCoord] :
          /\ location = [o \in Objs |-> PlacementOf(o, place[o])]
          /\ matrix_world = [o \in Objs |->
                 [linear |-> LinearOf(o), translation |-> PlacementOf(o, place[o])]]
    /\ bound_box = [o \in Objs |-> BoxOf(o)]
    /\ call = NoCall
    /\ original = matrix_world
    /\ returned = None
    /\ NoObjectData
    /\ materials = Empty
    /\ NoSceneData /\ NoSlideData

Apply(st) ==
    /\ matrix_world' = st.matrix_world
    /\ location' = st.location
    /\ bound_box' = st.bound_box
    /\ original' = matrix_world
    /\ UNCHANGED <<objects, meshes, collection_objects, materials,
                   scenes, sequences, render, vertices>>

AlignCall ==
    /\ call = NoCall
    /\ \E targets \in TargetLists, axis \in Axis, mode \in AlignmentMode,
          use_locations \in BOOLEAN :
          /\ validate_axis(axis)
          /\ \E st \in {align(Scene, targets, axis, mode, use_locations)} : Apply(st)
          /\ call' = [op |-> "align", targets |-> targets, axis |-> axis,
                      mode |-> mode, use_locations |-> use_locations]
          /\ returned' = None

AlignToCall ==
    /\ call = NoCall
    /\ \E target \in Objs, group \in TargetLists, axis \in Axis :
          /\ validate_axis(axis)
          /\ \E st \in {alignTo(Scene, target, group, axis)} : Apply(st)
          /\ call' = [op |-> "alignTo", target |-> target, targets |-> group,
                      axis |-> axis]
          /\ returned' = None

DistributeCall ==
    /\ call = NoCall
    /\ \E targets \in TargetLists, axis \in Axis, use_locations \in BOOLEAN :
          /\ validate_axis(axis)
          /\ \E st \in {distribute(Scene, targets, axis, use_locations)} : Apply(st)
          /\ call' = [op |-> "distribute", targets |-> targets, axis |-> axis,
                      use_locations |-> use_locations]
          /\ returned' = None

BoundingBoxCall ==
    /\ call = NoCall
    /\ \E targets \in TargetLists :
          /\ Apply(Scene)
          /\ call' = [op |-> "bounding_box", targets |-> targets]
          /\ returned' = bounding_box(Scene, targets)

NextGeometry == AlignCall \/ AlignToCall \/ DistributeCall \/ BoundingBoxCall

SpecGeometry == InitGeometry /\ [][NextGeometry]_vars

\* ------------------------------------------------ claims on the geometry

\* What the geometry claims speak of, stated over sets and not by the code's loops.
Range(s) == {s[i] : i \in 1..Len(s)}

Least(S) == CHOOSE v \in S : \A w \in S : RLe(v, w)

Greatest(S) == CHOOSE v \in S : \A w \in S : RLe(w, v)

\* The coordinates along axis k of the eight world-space corners of object o.
CornerCoords(mw, o, k) == {Transform(mw[o], bound_box[o][i])[k] : i \in 1..8}

BoxMin(mw, o, k) == Least(CornerCoords(mw, o, k))

BoxMax(mw, o, k) == Greatest(CornerCoords(mw, o, k))

BoxMid(mw, o, k) == RDiv(RAdd(BoxMin(mw, o, k), BoxMax(mw, o, k)), 2)

BoxSize(mw, o, k) == RSub(BoxMax(mw, o, k), BoxMin(mw, o, k))

Coord(mw, o, k) == mw[o].translation[k]

\* The sum and the arithmetic mean of f over a set of objects.
RECURSIVE SumOver(_, _)
SumOver(S, f) ==
    IF S = {} THEN R(0)
    ELSE LET o == CHOOSE x \in S : TRUE
             rest == SumOver(S \ {o}, f)
         IN  RAdd(f[o], rest)

MeanOver(S, f) == RDiv(SumOver(S, f), Cardinality(S))

\* The orders of a list's objects in which key never decreases.
OrdersBy(targets, key) ==
    {p \in [1..Len(targets) -> Range(targets)] :
        /\ \A i, j \in 1..Len(targets) : i # j => p[i] # p[j]
        /\ \A i \in 1..Len(targets) - 1 : RLe(key[p[i]], key[p[i + 1]])}

Moved == \E o \in Objs : matrix_world[o] # original[o]

\* C1: after align(objects, axis, mode, use_locations=False) on a non-empty
\* list of unparented objects, every target's bounding-box minimum (mode min),
\* midpoint (mode center) or maximum (mode max) on the axis is the same value:
\* the smallest original minimum, the mean of the original midpoints, or the
\* largest original maximum.
C1_AlignBoundingBoxes ==
    (call.op = "align" /\ ~call.use_locations /\ call.targets # <<>>) =>
        LET k == axis_index(call.axis)
            T == Range(call.targets)
            expected ==
                IF call.mode = "min"
                THEN Least({BoxMin(original, o, k) : o \in T})
                ELSE IF call.mode = "center"
                THEN MeanOver(T, [o \in T |-> BoxMid(original, o, k)])
                ELSE Greatest({BoxMax(original, o, k) : o \in T})
        IN  \A o \in T :
                IF call.mode = "min" THEN BoxMin(matrix_world, o, k) = expected
                ELSE IF call.mode = "center" THEN BoxMid(matrix_world, o, k) = expected
                ELSE BoxMax(matrix_world, o, k) = expected

\* A centre alignment of all the objects by bounding box that moved some of them.
C1_Witness ==
    /\ call.op = "align" /\ ~call.use_locations /\ call.mode = "center"
    /\ Len(call.targets) = MaxObjs
    /\ Moved

\* C2: after align(objects, axis, mode, use_locations=True) on a non-empty
\* list, every target's world location on the axis is the minimum, the mean
\* or the maximum of the targets' original coordinates on that axis.
C2_AlignLocations ==
    (call.op = "align" /\ call.use_locations /\ call.targets # <<>>) =>
        LET k == axis_index(call.axis)
            T == Range(call.targets)
            expected ==
                IF call.mode = "min"
                THEN Least({Coord(original, o, k) : o \in T})
                ELSE IF call.mode = "center"
                THEN MeanOver(T, [o \in T |-> Coord(original, o, k)])
                ELSE Greatest({Coord(original, o, k) : o \in T})
        IN  \A o \in T : Coord(matrix_world, o, k) = expected

\* A centre alignment by location of objects that were at three different places.
C2_Witness ==
    /\ call.op = "align" /\ call.use_locations /\ call.mode = "center"
    /\ Len(call.targets) >= 3
    /\ Cardinality({Coord(original, o, axis_index(call.axis)) :
                       o \in Range(call.targets)}) >= 3
    /\ Moved

\* C3: after distribute(objects, axis, use_locations=False) on at least two
\* unparented objects, taken in order of original leading edge, the gap from
\* each object's bounding-box maximum to the next object's bounding-box
\* minimum is the same: (extent of the group - sum of the sizes) / (n - 1).
\* With fewer than two objects nothing moves.
C3_DistributeBoundingBoxes ==
    (call.op = "distribute" /\ ~call.use_locations) =>
        LET k == axis_index(call.axis)
            T == Range(call.targets)
            n == Len(call.targets)
            leading == [o \in T |-> BoxMin(original, o, k)]
            extent == RSub(Greatest({BoxMax(original, o, k) : o \in T}),
                           Least({BoxMin(original, o, k) : o \in T}))
            used == SumOver(T, [o \in T |-> BoxSize(original, o, k)])
            gap == RDiv(RSub(extent, used), n - 1)
        IN  IF n < 2 THEN matrix_world = original
            ELSE \E p \in OrdersBy(call.targets, leading) :
                    \A i \in 1..n - 1 :
                        RSub(BoxMin(matrix_world, p[i + 1], k),
                             BoxMax(matrix_world, p[i], k)) = gap

\* All the objects distributed by bounding box, given in another order than
\* that of their leading edges, and some of them moved.
C3_Witness ==
    /\ call.op = "distribute" /\ ~call.use_locations
    /\ Len(call.targets) = MaxObjs
    /\ \E i \in 1..Len(call.targets) - 1 :
          RLt(BoxMin(original, call.targets[i + 1], axis_index(call.axis)),
              BoxMin(original, call.targets[i], axis_index(call.axis)))
    /\ Moved

\* The places distribute(use_locations=True) gives: in order of original
\* coordinate, min + i * (max - min) / (n - 1).
EvenlyPlaced ==
    LET k == axis_index(call.axis)
        T == Range(call.targets)
        n == Len(call.targets)
        coord == [o \in T |-> Coord(original, o, k)]
        lo == Least({coord[o] : o \in T})
        hi == Greatest({coord[o] : o \in T})
    IN  \E p \in OrdersBy(call.targets, coord) :
            \A i \in 1..n :
                Coord(matrix_world, p[i], k)
                    = RAdd(lo, RDiv(RMul(R(i - 1), RSub(hi, lo)), n - 1))

OrderPreserved ==
    LET k == axis_index(call.axis)
    IN  \A a, b \in Range(call.targets) :
            RLt(Coord(original, a, k), Coord(original, b, k))
                => RLt(Coord(matrix_world, a, k), Coord(matrix_world, b, k))

\* Every object at the smallest or largest original coordinate stays.
ExtremesStay ==
    LET k == axis_index(call.axis)
        T == Range(call.targets)
        all == {Coord(original, o, k) : o \in T}
    IN  \A o \in T :
            Coord(original, o, k) \in {Least(all), Greatest(all)}
                => Coord(matrix_world, o, k) = Coord(original, o, k)

\* One object at the smallest and one at the largest original coordinate stay.
OneAtEachExtremeStays ==
    LET k == axis_index(call.axis)
        T == Range(call.targets)
        all == {Coord(original, o, k) : o \in T}
    IN  \A e \in {Least(all), Greatest(all)} :
            \E o \in T : /\ Coord(original, o, k) = e
                         /\ Coord(matrix_world, o, k) = e

GroupMean(mw) ==
    MeanOver(Range(call.targets),
             [o \in Range(call.targets) |-> Coord(mw, o, axis_index(call.axis))])

C6_BoundingBox ==
    (call.op = "bounding_box") =>
        LET T == Range(call.targets)
        IN  IF T = {}
            THEN returned = << <<R(0), R(0), R(0)>>, <<R(0), R(0), R(0)>> >>
            ELSE \A k \in 1..3 :
                    LET all == UNION {CornerCoords(matrix_world, o, k) : o \in T}
                    IN  /\ returned[1][k] = Least(all)
                        /\ returned[2][k] = Greatest(all)
                        /\ RLe(returned[1][k], returned[2][k])
                        /\ \A o \in T :
                              /\ RLe(returned[1][k], BoxMin(matrix_world, o, k))
                              /\ RLe(BoxMax(matrix_world, o, k), returned[2][k])

\* The box of several objects, one of them mirrored and one turned, is wider
\* than each one's.
C6_Witness ==
    /\ call.op = "bounding_box"
    /\ Len(call.targets) >= 2
    /\ \E o \in Range(call.targets) : matrix_world[o].linear = Mirrored
    /\ \E o \in Range(call.targets) : matrix_world[o].linear = Turned
    /\ \A o \in Range(call.targets) :
          \E k \in 1..3 : \/ RLt(returned[1][k], BoxMin(matrix_world, o, k))
                          \/ RLt(BoxMax(matrix_world, o, k), returned[2][k])

\* ------------------------------------------- objects, meshes and collections

\* Number of collections besides the scene's own.
MaxCollections == 1

\* bpy.context.scene.collection; the collections of bpy.data.collections are
\* 1..MaxCollections.
SceneCollection == 0

Collections == {SceneCollection} \cup (1..MaxCollections)

\* None where an object (a parent) or a collection argument is expected.
NoObject == 0

NoCollection == -1

\* A scale argument: None is <<>>, a number x is <<x>>, a tuple is <<x, y, z>>.
NoScale == <<>>

ObjectData == [objects |-> objects, meshes |-> meshes,
               collection_objects |-> collection_objects]

\* The host names no two objects (or meshes) alike: a name in use gets the
\* first free numeric suffix (Cube, Cube.001, ...).
unique_name(base, used) ==
    LET free == {k \in 0..Cardinality(used) :
                    [base |-> base, suffix |-> k] \notin used}
    IN  [base |-> base, suffix |-> CHOOSE k \in free : \A j \in free : k <= j]

ObjectNames(st, except) == {st.objects[o].name : o \in DOMAIN st.objects \ {except}}

MeshNames(st, except) == {st.meshes[m] : m \in DOMAIN st.meshes \ {except}}

NextId(table) ==
    IF DOMAIN table = {} THEN 1
    ELSE 1 + CHOOSE i \in DOMAIN table : \A j \in DOMAIN table : j <= i

\* obj.children: the objects whose parent is obj, as the host lists them.
children(st, obj) ==
    ListOf({c \in DOMAIN st.objects : st.objects[c].parent = obj})

\* obj.users_collection: the data collections that hold obj, then the scene's.
users_collection(st, obj) ==
    ListOf({c \in DOMAIN st.collection_objects :
               c # SceneCollection /\ obj \in st.collection_objects[c]})
    \o (IF obj \in st.collection_objects[SceneCollection]
        THEN <<SceneCollection>> ELSE <<>>)

\* coll.objects.link(obj) and coll.objects.unlink(obj)
link(st, coll, obj) ==
    [st EXCEPT !.collection_objects[coll] = @ \cup {obj}]

unlink(st, coll, obj) ==
    [st EXCEPT !.collection_objects[coll] = @ \ {obj}]

\* template_obj.copy(): a new object with every field of the template (its
\* parent and mesh too) under a name of its own, in no collection.
object_copy(st, template_obj) ==
    LET obj == NextId(st.objects)
        copied == [st.objects[template_obj] EXCEPT
                      !.name = unique_name(@.base, ObjectNames(st, NoObject))]
    IN  [st EXCEPT !.objects = @ @@ (obj :> copied)]

\* obj.data = template_obj.data.copy(): a new mesh under a name of its own.
mesh_copy(st, obj) ==
    LET mesh == NextId(st.meshes)
        name == unique_name(st.meshes[st.objects[obj].data].base,
                            MeshNames(st, NoObject))
    IN  [st EXCEPT !.meshes = @ @@ (mesh :> name), !.objects[obj].data = mesh]

resolve_collection(arg) == IF arg = NoCollection THEN SceneCollection ELSE arg

\* isinstance(arg, tuple)
resolve_scale(arg) == IF Len(arg) = 3 THEN arg ELSE <<arg[1], arg[1], arg[1]>>

\* obj.name = name; obj.data.name = name
set_names(st, obj, name) ==
    LET named == [st EXCEPT !.objects[obj].name =
                      unique_name(name, ObjectNames(st, obj))]
        mesh == st.objects[obj].data
    IN  [named EXCEPT !.meshes[mesh] = unique_name(name, MeshNames(st, mesh))]

\* ---------------------------------------------------------------- copy_object

RECURSIVE copy_object(_, _, _, _, _)
RECURSIVE copy_children(_, _, _, _)

RECURSIVE copy_children_unadopted(_, _, _, _)

\* A slip: the copies of the children are left under the template's parent.
copy_children_unadopted(st, template_children, obj, collection) ==
    IF template_children = <<>> THEN st
    ELSE LET copy == copy_object(st, Head(template_children), None, collection,
                                 NoScale)
         IN  copy_children_unadopted(copy.st, Tail(template_children), obj,
                                     collection)

\* for template_child in template_obj.children: copy it under obj
copy_children(st, template_children, obj, collection) ==
    IF template_children = <<>> THEN st
    ELSE LET copy == copy_object(st, Head(template_children), None, collection,
                                 NoScale)
             child == copy.obj
             adopted == [copy.st EXCEPT
                            !.objects[child].parent = obj,
                            !.objects[child].matrix_parent_inverse = obj]
         IN  copy_children(adopted, Tail(template_children), obj, collection)

\* Returns the host's data after the call and the object returned.
copy_object(st, arg, name, collection, scale) ==
    LET template_obj == arg
        obj == NextId(st.objects)
        copied == mesh_copy(object_copy(st, template_obj), obj)
        coll == resolve_collection(collection)
        linked == link(copied, coll, obj)
        with_children ==
            copy_children(linked, children(linked, template_obj), obj, collection)
        with_name == IF name # None THEN set_names(with_children, obj, name)
                     ELSE with_children
        with_scale == IF scale # NoScale
                      THEN [with_name EXCEPT !.objects[obj].scale = resolve_scale(scale)]
                      ELSE with_name
    IN  [st |-> with_scale, obj |-> obj]

\* --------------------------------------------------------- move_to_collection

\* A slip: only the first of the object's collections is left.
unlink_first(st, colls, obj) ==
    IF colls = <<>> THEN st ELSE unlink(st, Head(colls), obj)

\* for coll in obj.users_collection: coll.objects.unlink(obj)
RECURSIVE unlink_all(_, _, _)
unlink_all(st, colls, obj) ==
    IF colls = <<>> THEN st
    ELSE LET unlinked == unlink(st, Head(colls), obj)
         IN  unlink_all(unlinked, Tail(colls), obj)

RECURSIVE move_to_collection(_, _, _, _)
RECURSIVE move_children(_, _, _)

\* for child in obj.children: move_to_collection(child, collection, True)
move_children(st, kids, collection) ==
    IF kids = <<>> THEN st
    ELSE LET moved == move_to_collection(st, Head(kids), collection, TRUE)
         IN  move_children(moved, Tail(kids), collection)

move_to_collection(st, obj, collection, include_children) ==
    LET coll == resolve_collection(collection)
        unlinked == unlink_all(st, users_collection(st, obj), obj)
        linked == link(unlinked, coll, obj)
    IN  IF include_children THEN move_children(linked, children(linked, obj), coll)
        ELSE linked

\* ------------------------------------------------------ the object operations

\* The scene the object functions are called on: MaxObjs mesh objects in any
\* forest (an object's parent was made before it), each in no collection, in
\* one, or in all of them.
Memberships == {{}, Collections} \cup {{c} : c \in Collections}

InitObjects ==
    /\ \E parents \in {f \in [Objs -> {NoObject} \cup Objs] : \A o \in Objs : f[o] < o} :
          objects = [o \in Objs |->
              [name |-> [base |-> "Cube", suffix |-> o - 1],
               parent |-> parents[o],
               scale |-> <<o, 1, 1>>,
               data |-> o,
               matrix_parent_inverse |-> parents[o]]]
    /\ meshes = [o \in Objs |-> [base |-> "Cube", suffix |-> o - 1]]
    /\ \E member \in [Objs -> Memberships] :
          collection_objects = [c \in Collections |-> {o \in Objs : c \in member[o]}]
    /\ call = NoCall
    /\ original = ObjectData
    /\ returned = None
    /\ NoGeometry
    /\ materials = Empty
    /\ NoSceneData /\ NoSlideData

ApplyObjects(st) ==
    /\ objects' = st.objects
    /\ meshes' = st.meshes
    /\ collection_objects' = st.collection_objects
    /\ original' = ObjectData
    /\ UNCHANGED <<matrix_world, location, bound_box, materials,
                   scenes, sequences, render, vertices>>

Names == {None, "Copy"}

Scales == {NoScale, <<2>>, <<1, 2, 3>>}

CopyObjectCall ==
    /\ call = NoCall
    /\ \E arg \in DOMAIN objects, name \in Names,
          collection \in Collections \cup {NoCollection}, scale \in Scales :
          \E copy \in {copy_object(ObjectData, arg, name, collection, scale)} :
              /\ ApplyObjects(copy.st)
              /\ call' = [op |-> "copy_object", arg |-> arg, name |-> name,
                          collection |-> collection, scale |-> scale]
              /\ returned' = copy.obj

MoveToCollectionCall ==
    /\ call = NoCall
    /\ \E obj \in DOMAIN objects, collection \in Collections,
          include_children \in BOOLEAN :
          \E st \in {move_to_collection(ObjectData, obj, collection, include_children)} :
              /\ ApplyObjects(st)
              /\ call' = [op |-> "move_to_collection", obj |-> obj,
                          collection |-> collection,
                          include_children |-> include_children]
              /\ returned' = None

NextObjects == CopyObjectCall \/ MoveToCollectionCall

SpecObjects == InitObjects /\ [][NextObjects]_vars

\* --------------------------------------------------- claims on the objects

RECURSIVE AncestorsOf(_, _)
AncestorsOf(objs, o) ==
    IF objs[o].parent = NoObject THEN {}
    ELSE {objs[o].parent} \cup AncestorsOf(objs, objs[o].parent)

DescendantsOf(objs, t) == {d \in DOMAIN objs : t \in AncestorsOf(objs, d)}

\* The collections an object is linked to.
UsersOf(links, o) == {c \in DOMAIN links : o \in links[c]}

\* C8: after move_to_collection(obj, c) obj is linked to c and to no other
\* collection, also when it was already in c or in several collections; with
\* include_children=True the same holds for every descendant of obj, with
\* include_children=False the descendants' collections are unchanged.
C8_MoveToCollection ==
    (call.op = "move_to_collection") =>
        LET D == DescendantsOf(original.objects, call.obj)
        IN  /\ UsersOf(collection_objects, call.obj) = {call.collection}
            /\ \A d \in D :
                  UsersOf(collection_objects, d)
                      = IF call.include_children THEN {call.collection}
                        ELSE UsersOf(original.collection_objects, d)

\* An object that was in several collections, the target among them, was moved
\* with its child and grandchild, which were elsewhere.
C8_Witness ==
    /\ call.op = "move_to_collection" /\ call.include_children
    /\ call.collection \in UsersOf(original.collection_objects, call.obj)
    /\ Cardinality(UsersOf(original.collection_objects, call.obj)) >= 2
    /\ \E d \in DOMAIN objects :
          /\ objects[d].parent # NoObject
          /\ objects[objects[d].parent].parent = call.obj
          /\ call.collection \notin UsersOf(original.collection_objects, d)
          /\ UsersOf(original.collection_objects, d) # {}

\* C9 as stated: copy_object called without a collection places the new
\* object in the first collection of the object being copied.
C9_AsStated ==
    (/\ call.op = "copy_object"
     /\ call.collection = NoCollection
     /\ users_collection(original, call.arg) # <<>>) =>
        returned \in collection_objects[users_collection(original, call.arg)[1]]

\* C10: copy_object(t) returns a new object and makes exactly one new object
\* for t and for each descendant of t; the copy of a descendant has the copy
\* of its parent as parent; every copy is linked to the resolved collection;
\* name and scale are given to the returned copy only.  (That TLC computes
\* the result for every forest is the termination of the recursion.)
C10_CopyObject ==
    (call.op = "copy_object") =>
        LET old == original.objects
            t == call.arg
            T == {t} \cup DescendantsOf(old, t)
            New == DOMAIN objects \ DOMAIN old
            coll == IF call.collection = NoCollection THEN SceneCollection
                    ELSE call.collection
        IN  /\ returned \in New
            /\ Cardinality(New) = Cardinality(T)
            /\ \E f \in [T -> New] :
                  /\ \A a, b \in T : a # b => f[a] # f[b]
                  /\ f[t] = returned
                  /\ \A d \in T \ {t} :
                        /\ objects[f[d]].parent = f[old[d].parent]
                        /\ objects[f[d]].scale = old[d].scale
                        /\ objects[f[d]].name.base = old[d].name.base
            /\ \A n \in New : n \in collection_objects[coll]
            /\ objects[returned].scale =
                  IF call.scale = NoScale THEN old[t].scale
                  ELSE IF Len(call.scale) = 1
                       THEN <<call.scale[1], call.scale[1], call.scale[1]>>
                       ELSE call.scale
            /\ objects[returned].name.base =
                  IF call.name = None THEN old[t].name.base ELSE call.name

\* A whole hierarchy of MaxObjs objects was copied into a collection of its
\* own under a new name and scale.
C10_Witness ==
    /\ call.op = "copy_object"
    /\ call.name # None /\ call.scale # NoScale
    /\ call.collection \notin {NoCollection, SceneCollection}
    /\ Cardinality(DescendantsOf(original.objects, call.arg)) = MaxObjs - 1
    /\ \E d \in DOMAIN original.objects :
          /\ original.objects[d].parent # NoObject
          /\ original.objects[original.objects[d].parent].parent = call.arg

\* ------------------------------------------------------------------ materials

\* Number of materials the host's data holds at most.
MaxMaterials == 3

\* A material or name that may be None: <<>> for None, <<x>> for x.
Nothing == <<>>

Some(x) == <<x>>

\* bpy.data.materials, keyed by the names the host gave
\* ([base |-> the name asked for, suffix |-> 0, or the host's .001, ...]).

\* bpy.data.materials.get(name)
materials_get(table, name) ==
    IF [base |-> name, suffix |-> 0] \in DOMAIN table
    THEN Some([base |-> name, suffix |-> 0])
    ELSE Nothing

\* bpy.data.materials.new(name=name), then material.use_nodes = True: a
\* material under a name of its own with the default node tree.
materials_new(table, name) ==
    LET key == unique_name(name, DOMAIN table)
        material == [nodes |-> {"Principled BSDF", "Material Output"},
                     surface |-> "Principled BSDF",
                     inputs |-> [Roughness |-> 5, EmissionStrength |-> 0],
                     color |-> Nothing,
                     shadow_method |-> "OPAQUE",
                     blend_method |-> "OPAQUE"]
    IN  [table |-> table @@ (key :> material), material |-> key]

\* for key, value in config.items(): bsdf.inputs[key].default_value = value
apply_config(inputs, config) ==
    [k \in DOMAIN inputs |-> IF k \in DOMAIN config THEN config[k] ELSE inputs[k]]

create_bsdf_material(table, name, config, shadow) ==
    LET new == materials_new(table, name)
        m == new.material
    IN  [table |-> [new.table EXCEPT
                       ![m].inputs = apply_config(@, config),
                       ![m].shadow_method = shadow],
         material |-> m]

create_emission_material(table, name, color, shadow, opacity_control) ==
    LET new == materials_new(table, name)
        m == new.material
        rgba == IF Len(color) = 3 THEN color \o <<1>> ELSE color
        emission == [new.table EXCEPT
                        ![m].nodes = (@ \cup {"Emission"}) \ {"Principled BSDF"},
                        ![m].color = Some(rgba),
                        ![m].shadow_method = shadow,
                        ![m].surface = "Emission"]
        controlled == [emission EXCEPT
                          ![m].nodes = @ \cup {"Transparent BSDF", "Mix Shader",
                                               "Attribute"},
                          ![m].surface = "Mix Shader",
                          ![m].blend_method = "BLEND"]
    IN  [table |-> IF opacity_control THEN controlled ELSE emission,
         material |-> m]

get_or_create_bsdf_material(table, name, config, shadow) ==
    LET material == materials_get(table, name)
    IN  IF material # Nothing THEN [table |-> table, material |-> material[1]]
        ELSE create_bsdf_material(table, name, config, shadow)

\* A slip: the look-up by name forgotten.
get_or_create_emission_material_anew(table, name, color, shadow, opacity_control) ==
    create_emission_material(table, name, color, shadow, opacity_control)

get_or_create_emission_material(table, name, color, shadow, opacity_control) ==
    LET material == materials_get(table, name)
    IN  IF material # Nothing THEN [table |-> table, material |-> material[1]]
        ELSE create_emission_material(table, name, color, shadow, opacity_control)

\* srgb_to_linear_rgb on channels that are 0 or 255, where the power law is
\* exact: 0 / 12.92 = 0 and ((1 + 0.055) / 1.055) ** 2.4 = 1.
convert_channel(value) == IF value = 0 THEN 0 ELSE 1

srgb_to_linear_rgb(color) ==
    <<convert_channel(color[1]), convert_channel(color[2]),
      convert_channel(color[3]), 1>>

\* f"MgColorMat_{red}_{green}_{blue}{'_alpha' if opacity_controls else ''}"
default_color_name(color, opacity_controls) ==
    <<"MgColorMat", color[1], color[2], color[3],
      IF opacity_controls THEN "_alpha" ELSE "">>

color_material(table, color, name, opacity_controls) ==
    LET resolved == IF name # Nothing THEN name[1]
                    ELSE default_color_name(color, opacity_controls)
    IN  get_or_create_emission_material(table, resolved, srgb_to_linear_rgb(color),
                                        "NONE", opacity_controls)

\* The arguments the material functions are called with.
MaterialNames == {<<"Glass">>, <<"Paint">>}

Configs == {[Roughness |-> 1], [Roughness |-> 0, EmissionStrength |-> 2]}

Shadows == {"OPAQUE", "NONE"}

EmissionColors == {<<1, 0, 0>>, <<0, 0, 1, 0>>}

SlideColors == {<<0, 0, 0>>, <<255, 0, 255>>}

InitMaterials ==
    /\ materials = Empty
    /\ call = NoCall
    /\ original = Empty
    /\ returned = None
    /\ NoGeometry
    /\ NoObjectData
    /\ NoSceneData /\ NoSlideData

\* The host's data has room for the material the call may make.
Room(name) ==
    \/ materials_get(materials, name) # Nothing
    \/ Cardinality(DOMAIN materials) < MaxMaterials

ApplyMaterials(result) ==
    /\ materials' = result.table
    /\ returned' = result.material
    /\ original' = materials
    /\ UNCHANGED <<matrix_world, location, bound_box, objects, meshes,
                   collection_objects, scenes, sequences, render, vertices>>

GetOrCreateBsdfMaterialCall ==
    \E name \in MaterialNames, config \in Configs, shadow \in Shadows :
        /\ Room(name)
        /\ \E result \in {get_or_create_bsdf_material(materials, name, config, shadow)} :
              ApplyMaterials(result)
        /\ call' = [op |-> "get_or_create_bsdf_material", name |-> name]

GetOrCreateEmissionMaterialCall ==
    \E name \in MaterialNames, color \in EmissionColors, shadow \in Shadows,
       opacity_control \in BOOLEAN :
        /\ Room(name)
        /\ \E result \in {get_or_create_emission_material(
                              materials, name, color, shadow, opacity_control)} :
              ApplyMaterials(result)
        /\ call' = [op |-> "get_or_create_emission_material", name |-> name]

ColorMaterialCall ==
    \E color \in SlideColors, name \in {Nothing} \cup {Some(n) : n \in MaterialNames},
       opacity_controls \in BOOLEAN :
        LET resolved == IF name # Nothing THEN name[1]
                        ELSE default_color_name(color, opacity_controls)
        IN  /\ Room(resolved)
            /\ \E result \in {color_material(materials, color, name, opacity_controls)} :
                  ApplyMaterials(result)
            /\ call' = [op |-> "color_material", name |-> resolved]

NextMaterials ==
    GetOrCreateBsdfMaterialCall \/ GetOrCreateEmissionMaterialCall
        \/ ColorMaterialCall

SpecMaterials == InitMaterials /\ [][NextMaterials]_vars

\* C7: get_or_create_emission_material and get_or_create_bsdf_material are
\* get-or-create by name: after any sequence of calls no name has more than
\* one material; a call whose name exists returns that material and creates or
\* changes nothing, whatever its other arguments; a call with a new name
\* creates exactly one material, with that name.
C7_GetOrCreate ==
    /\ \A m \in DOMAIN materials : m.suffix = 0
    /\ (call # NoCall) =>
          LET key == [base |-> call.name, suffix |-> 0]
          IN  /\ returned = key
              /\ IF key \in DOMAIN original
                 THEN materials = original
                 ELSE /\ DOMAIN materials = DOMAIN original \cup {key}
                      /\ \A m \in DOMAIN original : materials[m] = original[m]

\* A call found a material that an earlier call with other arguments made,
\* after a call with another name made a second one.
C7_Witness ==
    /\ call # NoCall
    /\ materials = original
    /\ Cardinality(DOMAIN materials) >= 2
    /\ call.op = "get_or_create_emission_material"
    /\ materials[returned].surface = "Principled BSDF"

\* ------------------------------------------------ scenes and the sequencer

MaxScenes == 3

MaxStrips == 2

\* A name is the sequence of its characters.
DigitValue ==
    ("0" :> 0) @@ ("1" :> 1) @@ ("2" :> 2) @@ ("3" :> 3) @@ ("4" :> 4)
        @@ ("5" :> 5) @@ ("6" :> 6) @@ ("7" :> 7) @@ ("8" :> 8) @@ ("9" :> 9)

Whitespace == {" "}

\* "." in scene.name
contains(text, char) == \E i \in DOMAIN text : text[i] = char

\* text.split(sep)[0]: the text before the first sep, all of it when there
\* is none.
RECURSIVE split_first(_, _)
split_first(text, sep) ==
    IF text = <<>> \/ Head(text) = sep THEN <<>>
    ELSE <<Head(text)>> \o split_first(Tail(text), sep)

RECURSIVE lstrip(_)
lstrip(text) ==
    IF text # <<>> /\ Head(text) \in Whitespace THEN lstrip(Tail(text)) ELSE text

RECURSIVE rstrip(_)
rstrip(text) ==
    IF text # <<>> /\ text[Len(text)] \in Whitespace
    THEN rstrip(SubSeq(text, 1, Len(text) - 1))
    ELSE text

RECURSIVE digits_value(_)
digits_value(digits) ==
    IF digits = <<>> THEN 0
    ELSE 10 * digits_value(SubSeq(digits, 1, Len(digits) - 1))
            + DigitValue[digits[Len(digits)]]

\* int(text): white space around the number is dropped, one sign may lead,
\* and the rest is decimal digits, at least one; Nothing stands for ValueError.
int(text) ==
    LET stripped == rstrip(lstrip(text))
        signed == stripped # <<>> /\ Head(stripped) \in {"+", "-"}
        digits == IF signed THEN Tail(stripped) ELSE stripped
        value == digits_value(digits)
    IN  IF digits # <<>> /\ \A i \in DOMAIN digits : digits[i] \in DOMAIN DigitValue
        THEN Some(IF signed /\ Head(stripped) = "-" THEN -value ELSE value)
        ELSE Nothing

int_max(a, b) == IF b > a THEN b ELSE a

NoScene == 0

\* The loop of get_max_scene_index over the scenes still to visit; names is
\* the name of every scene of the host's data.
RECURSIVE get_max_scene_index_loop(_, _, _, _)
get_max_scene_index_loop(names, todo, max_index, max_scene) ==
    IF todo = <<>> THEN <<max_index, max_scene>>
    ELSE LET scene == Head(todo)
             index == IF contains(names[scene], ".")
                      THEN int(split_first(names[scene], "."))
                      ELSE Nothing
         IN  IF index # Nothing
             THEN get_max_scene_index_loop(names, Tail(todo),
                                           int_max(max_index, index[1]), scene)
             ELSE get_max_scene_index_loop(names, Tail(todo), max_index, max_scene)

get_max_scene_index(names, list) ==
    get_max_scene_index_loop(names, list, 0, NoScene)

\* max([1] + [seq.frame_final_end for the strips on the channel])
RECURSIVE get_next_unused_frame(_, _)
get_next_unused_frame(strips, channel) ==
    IF strips = <<>> THEN 1
    ELSE LET rest == get_next_unused_frame(Tail(strips), channel)
         IN  IF Head(strips).channel = channel
             THEN int_max(rest, Head(strips).frame_final_end)
             ELSE rest

\* The frames a scene strip lasts in the sequencer.
SceneFrames == 2

\* sequences.new_scene(name, scene, channel, frame_start)
new_scene(strips, name, scene, channel, frame_start) ==
    Append(strips, [name |-> name, scene |-> scene, channel |-> channel,
                    frame_start |-> frame_start,
                    frame_final_end |-> frame_start + SceneFrames])

\* list(bpy.data.scenes)
all_scenes(names) == [i \in 1..Len(names) |-> i]

add_latest_scene_to_video(st) ==
    LET max_scene == get_max_scene_index(st.scenes, all_scenes(st.scenes))[2]
        next_frame == get_next_unused_frame(st.sequences, 2)
    IN  [st |-> [st EXCEPT !.sequences =
                    new_scene(@, st.scenes[max_scene], max_scene, 2, next_frame)],
         scene |-> max_scene]

SceneData == [scenes |-> scenes, sequences |-> sequences]

\* The names the scenes of a file may carry: numbered ones, one of two digits,
\* a negative number, a number inside spaces, a name with no ".", and a name
\* whose text before the "." is no number.
SceneNames ==
    { <<"1", ".", "a">>, <<"2", ".", "a">>, <<"1", "0", ".", "a">>,
      <<"-", "1", ".", "a">>, <<" ", "3", " ", ".", "a">>,
      <<"a">>, <<"a", ".", "1">> }

Injective(s) == \A i, j \in DOMAIN s : s[i] = s[j] => i = j

\* The host gives no two scenes one name; the order it lists them in is its own.
SceneTables ==
    UNION {{s \in [1..n -> SceneNames] : Injective(s)} : n \in 0..MaxScenes}

\* The lists of scenes a caller may pass: some of the scenes, in any order.
SceneLists(names) ==
    UNION {{l \in [1..n -> DOMAIN names] : Injective(l)} : n \in 0..Len(names)}

InitScenes ==
    /\ scenes \in SceneTables
    /\ sequences = <<>>
    /\ call = NoCall
    /\ original = SceneData
    /\ returned = None
    /\ NoGeometry
    /\ NoObjectData
    /\ materials = Empty
    /\ NoSlideData

ApplyScenes(st) ==
    /\ scenes' = st.scenes
    /\ sequences' = st.sequences
    /\ original' = SceneData
    /\ UNCHANGED <<matrix_world, location, bound_box, objects, meshes,
                   collection_objects, materials, render, vertices>>

GetMaxSceneIndexCall ==
    \E list \in SceneLists(scenes) :
        /\ ApplyScenes(SceneData)
        /\ call' = [op |-> "get_max_scene_index", scenes |-> list]
        /\ returned' = get_max_scene_index(scenes, list)

\* With no numbered scene max_scene is None and reading max_scene.name raises.
AddLatestSceneToVideoCall ==
    /\ Len(sequences) < MaxStrips
    /\ get_max_scene_index(scenes, all_scenes(scenes))[2] # NoScene
    /\ \E result \in {add_latest_scene_to_video(SceneData)} :
          /\ ApplyScenes(result.st)
          /\ returned' = result.scene
    /\ call' = [op |-> "add_latest_scene_to_video"]

NextScenes == GetMaxSceneIndexCall \/ AddLatestSceneToVideoCall

SpecScenes == InitScenes /\ [][NextScenes]_vars

\* ---------------------------------------------------- claims on the scenes

\* The integer before the first "." of a scene's name, when there is one.
Prefix(name) ==
    IF contains(name, ".") THEN int(split_first(name, ".")) ELSE Nothing

Numbered(names, S) == {i \in S : Prefix(names[i]) # Nothing}

\* (m, s) is the largest prefix among the scenes S and a scene that carries it.
LargestOf(names, S, m, s) ==
    /\ s \in Numbered(names, S)
    /\ Prefix(names[s]) = Some(m)
    /\ \A i \in Numbered(names, S) : Prefix(names[i])[1] <= m

\* C11: get_max_scene_index(scenes) returns (m, s) where m is the largest
\* integer prefix among the scenes with a parseable prefix and s is the scene
\* that carries m, for every order of the list, and (0, None) when no scene
\* has a parseable prefix; so add_latest_scene_to_video adds the scene with
\* the highest numbered name.
C11_AsStated ==
    /\ (call.op = "get_max_scene_index") =>
          IF Numbered(scenes, Range(call.scenes)) = {}
          THEN returned = <<0, NoScene>>
          ELSE LargestOf(scenes, Range(call.scenes), returned[1], returned[2])
    /\ (call.op = "add_latest_scene_to_video") =>
          LET added == sequences[Len(sequences)]
          IN  /\ added.scene = returned
              /\ Prefix(scenes[returned]) # Nothing
              /\ LargestOf(scenes, DOMAIN scenes, Prefix(scenes[returned])[1],
                           returned)

\* ------------------------------------------------------------------ slides

MaxResolution == 3

MaxExtent == 4

Anchors ==
    {"topleft", "top", "topright", "left", "center", "right",
     "bottomleft", "bottom", "bottomright"}

\* A slip: the slide taken to be square.
get_slide_dimensions_square(st) ==
    <<st.render.resolution_x, st.render.resolution_x>>

get_slide_dimensions(st) == <<st.render.resolution_x, st.render.resolution_y>>

set_slide_dimensions(st, width, height) ==
    [st EXCEPT !.render = [resolution_x |-> width, resolution_y |-> height]]

scale_length(length) == RDiv(length, 100)

\* x >= 0 and x <= 1
is_proportion(v) == RLe(R(0), v) /\ RLe(v, R(1))

\* 0.02, the height of a layer
LayerHeight == <<1, 50>>

resolve_position(st, position) ==
    LET x == position[1]
        y == position[2]
        z == IF Len(position) = 2 THEN R(1) ELSE position[3]
        dimensions == get_slide_dimensions(st)
        scaled_x == IF is_proportion(x) THEN RMul(x, R(dimensions[1])) ELSE x
        scaled_y == IF is_proportion(y) THEN RMul(y, R(dimensions[2])) ELSE y
    IN  <<scale_length(scaled_x), scale_length(scaled_y), RMul(z, LayerHeight)>>

\* float("inf") and float("-inf"): above and below every number under RLt.
Infinity == <<1, 0>>

NegInfinity == <<-1, 0>>

\* object.matrix_world @ vertex.co
world_vertex(m, co) ==
    [r \in 1..3 |->
        RAdd(m.translation[r],
             RAdd(RMul(R(m.linear[r][1]), co[1]),
                  RAdd(RMul(R(m.linear[r][2]), co[2]),
                       RMul(R(m.linear[r][3]), co[3]))))]

\* The loop of get_bounding_box over the vertices still to visit.
RECURSIVE get_bounding_box_loop(_, _, _, _, _, _)
get_bounding_box_loop(m, todo, min_x, min_y, max_x, max_y) ==
    IF todo = <<>> THEN << <<min_x, min_y>>, <<max_x, max_y>> >>
    ELSE LET world == world_vertex(m, Head(todo))
         IN  get_bounding_box_loop(m, Tail(todo),
                 RMin2(min_x, world[1]), RMin2(min_y, world[2]),
                 RMax2(max_x, world[1]), RMax2(max_y, world[2]))

get_bounding_box(st, object) ==
    get_bounding_box_loop(st.matrix_world[object], st.vertices[object],
                          Infinity, Infinity, NegInfinity, NegInfinity)

\* A slip: y taken to grow downwards, top at min_y.
anchor_target_flipped(anchor, box) ==
    LET avg_x == RDiv(RAdd(box[1][1], box[2][1]), 2)
        avg_y == RDiv(RAdd(box[1][2], box[2][2]), 2)
    IN  CASE anchor = "topleft" -> <<box[1][1], box[1][2]>>
          [] anchor = "top" -> <<avg_x, box[1][2]>>
          [] anchor = "topright" -> <<box[2][1], box[1][2]>>
          [] anchor = "left" -> <<box[1][1], avg_y>>
          [] anchor = "center" -> <<avg_x, avg_y>>
          [] anchor = "right" -> <<box[2][1], avg_y>>
          [] anchor = "bottomleft" -> <<box[1][1], box[2][2]>>
          [] anchor = "bottom" -> <<avg_x, box[2][2]>>
          [] anchor = "bottomright" -> <<box[2][1], box[2][2]>>

\* The match statement of set_anchor; box is ((min_x, min_y), (max_x, max_y)).
anchor_target(anchor, box) ==
    LET avg_x == RDiv(RAdd(box[1][1], box[2][1]), 2)
        avg_y == RDiv(RAdd(box[1][2], box[2][2]), 2)
    IN  CASE anchor = "topleft" -> <<box[1][1], box[2][2]>>
          [] anchor = "top" -> <<avg_x, box[2][2]>>
          [] anchor = "topright" -> <<box[2][1], box[2][2]>>
          [] anchor = "left" -> <<box[1][1], avg_y>>
          [] anchor = "center" -> <<avg_x, avg_y>>
          [] anchor = "right" -> <<box[2][1], avg_y>>
          [] anchor = "bottomleft" -> <<box[1][1], box[1][2]>>
          [] anchor = "bottom" -> <<avg_x, box[1][2]>>
          [] anchor = "bottomright" -> <<box[2][1], box[1][2]>>

\* mesh.transform(Matrix.Translation(offset)): every vertex moves by offset,
\* in the mesh's own space.
mesh_transform(verts, offset) ==
    [i \in DOMAIN verts |-> [r \in 1..3 |-> RAdd(verts[i][r], offset[r])]]

set_anchor(st, object, anchor) ==
    LET target == anchor_target(anchor, get_bounding_box(st, object))
        x == st.matrix_world[object].translation[1]
        y == st.matrix_world[object].translation[2]
        translation == <<RSub(x, target[1]), RSub(y, target[2]), R(0)>>
    IN  [st EXCEPT !.vertices[object] = mesh_transform(@, translation)]

SlideData ==
    [render |-> render, matrix_world |-> matrix_world, location |-> location,
     vertices |-> vertices]

\* The mesh of object o: a triangle off the origin, in one of two sizes,
\* whose box has no vertex at three of its corners or at its centre.
MeshOf(o) ==
    << <<R(-1), R(0), R(0)>>, <<R(1 + (o % 2)), R(1), R(0)>>,
       <<R(0), R(2 + (o % 2)), R(1)>> >>

Resolutions == 1..MaxResolution

Lengths == {R(-1), R(0), <<1, 2>>, R(1), <<3, 2>>}

Layers == {R(0), R(2)}

Positions ==
    {<<x, y>> : x \in Lengths, y \in Lengths}
        \cup {<<x, y, z>> : x \in Lengths, y \in Lengths, z \in Layers}

\* A slide of any size, with nothing on it.
InitSlides ==
    /\ \E width \in Resolutions, height \in Resolutions :
          render = [resolution_x |-> width, resolution_y |-> height]
    /\ vertices = Empty
    /\ NoGeometry
    /\ call = NoCall
    /\ original = SlideData
    /\ returned = None
    /\ NoObjectData
    /\ materials = Empty
    /\ NoSceneData

\* A slide with one mesh object on it, unparented, at a place of its own.
InitAnchors ==
    /\ render = [resolution_x |-> MaxResolution, resolution_y |-> MaxResolution]
    /\ \E o \in Objs, c \in 0..MaxCoord :
          /\ matrix_world = (o :> [linear |-> LinearOf(o),
                                   translation |-> PlacementOf(o, c)])
          /\ location = (o :> PlacementOf(o, c))
          /\ vertices = (o :> MeshOf(o))
    /\ call = NoCall
    /\ original = SlideData
    /\ returned = None
    /\ bound_box = Empty
    /\ NoObjectData
    /\ materials = Empty
    /\ NoSceneData

ApplySlides(st) ==
    /\ render' = st.render
    /\ matrix_world' = st.matrix_world
    /\ location' = st.location
    /\ vertices' = st.vertices
    /\ original' = SlideData
    /\ UNCHANGED <<bound_box, objects, meshes, collection_objects, materials,
                   scenes, sequences>>

\* The coordinates a mesh may reach.
Within(verts) ==
    \A i \in DOMAIN verts : \A r \in 1..3 :
        /\ RLe(R(-MaxExtent), verts[i][r])
        /\ RLe(verts[i][r], R(MaxExtent))

SetSlideDimensionsCall ==
    \E width \in Resolutions, height \in Resolutions :
        /\ ApplySlides(set_slide_dimensions(SlideData, width, height))
        /\ call' = [op |-> "set_slide_dimensions", width |-> width,
                    height |-> height]
        /\ returned' = None

ResolvePositionCall ==
    \E position \in Positions :
        /\ ApplySlides(SlideData)
        /\ call' = [op |-> "resolve_position", position |-> position]
        /\ returned' = resolve_position(SlideData, position)

GetBoundingBoxCall ==
    \E object \in DOMAIN vertices :
        /\ ApplySlides(SlideData)
        /\ call' = [op |-> "get_bounding_box", object |-> object]
        /\ returned' = get_bounding_box(SlideData, object)

\* again: the call repeats the call before it.
SetAnchorCall ==
    \E object \in DOMAIN vertices, anchor \in Anchors :
        /\ \E st \in {set_anchor(SlideData, object, anchor)} :
              /\ Within(st.vertices[object])
              /\ ApplySlides(st)
        /\ call' = [op |-> "set_anchor", object |-> object, anchor |-> anchor,
                    again |-> /\ call.op = "set_anchor"
                              /\ call.object = object
                              /\ call.anchor = anchor]
        /\ returned' = None

NextSlides == SetSlideDimensionsCall \/ ResolvePositionCall

SpecSlides == InitSlides /\ [][NextSlides]_vars

NextAnchors == GetBoundingBoxCall \/ SetAnchorCall

SpecAnchors == InitAnchors /\ [][NextAnchors]_vars

\* ---------------------------------------------------- claims on the slides

\* out = v * size / 100 for a proportion v of the slide, v / 100 for pixels.
Resolved(v, size, out) ==
    IF v[1] >= 0 /\ v[1] <= v[2]
    THEN out[1] * v[2] * 100 = v[1] * size * out[2]
    ELSE out[1] * v[2] * 100 = v[1] * out[2]

\* The rational a is n / d.
Is(a, n, d) == a[1] * d = n * a[2]

\* C12: resolve_position resolves x to x * W / 100 when 0 <= x <= 1 and to
\* x / 100 otherwise, y likewise with H and independently of x, and z to
\* 0.02 * layer, with layer 1 for a two-component position; (0.5, 0.5)
\* resolves to (W / 200, H / 200, 0.02) and (1, 1) to (W / 100, H / 100, 0.02).
C12_ResolvePosition ==
    (call.op = "resolve_position") =>
        LET position == call.position
            W == original.render.resolution_x
            H == original.render.resolution_y
            layer == IF Len(position) = 2 THEN R(1) ELSE position[3]
        IN  /\ Len(returned) = 3
            /\ Resolved(position[1], W, returned[1])
            /\ Resolved(position[2], H, returned[2])
            /\ Is(returned[3], layer[1], 50 * layer[2])
            /\ (position = << <<1, 2>>, <<1, 2>> >>) =>
                  /\ Is(returned[1], W, 200)
                  /\ Is(returned[2], H, 200)
                  /\ Is(returned[3], 1, 50)
            /\ (position = <<R(1), R(1)>>) =>
                  /\ Is(returned[1], W, 100)
                  /\ Is(returned[2], H, 100)
                  /\ Is(returned[3], 1, 50)
            /\ render = original.render

\* A position with x in pixels and y a proportion was resolved on a slide
\* that is wider than high.
C12_Witness ==
    /\ call.op = "resolve_position"
    /\ call.position = << <<3, 2>>, <<1, 2>> >>
    /\ render.resolution_x > render.resolution_y
    /\ returned = << <<3, 200>>, <<render.resolution_y, 200>>, <<1, 50>> >>

\* The x and y of the world-space vertices of object o.
WorldCoords(o, r) ==
    {world_vertex(matrix_world[o], vertices[o][i])[r] : i \in DOMAIN vertices[o]}

Middle(S) == RDiv(RAdd(Least(S), Greatest(S)), 2)

\* The point that anchor names on the 2D world bounding box of object o.
AnchorPoint(anchor, o) ==
    LET xs == WorldCoords(o, 1)
        ys == WorldCoords(o, 2)
    IN  << IF anchor \in {"topleft", "left", "bottomleft"} THEN Least(xs)
           ELSE IF anchor \in {"top", "center", "bottom"} THEN Middle(xs)
           ELSE Greatest(xs),
           IF anchor \in {"topleft", "top", "topright"} THEN Greatest(ys)
           ELSE IF anchor \in {"left", "center", "right"} THEN Middle(ys)
           ELSE Least(ys) >>

PureTranslation(o) == matrix_world[o].linear = Identity

Same(a, b) == a[1] * b[2] = b[1] * a[2]

\* C13: for an object whose world matrix is a pure translation and each of
\* the nine anchors, after set_anchor(obj, a) the point a of the object's 2D
\* world bounding box is the object's origin (x, y of its world translation),
\* the object's location is unchanged, and calling set_anchor again with the
\* same anchor leaves the mesh unchanged.
C13_SetAnchor ==
    (call.op = "set_anchor" /\ PureTranslation(call.object)) =>
        LET o == call.object
            point == AnchorPoint(call.anchor, o)
        IN  /\ Same(point[1], matrix_world[o].translation[1])
            /\ Same(point[2], matrix_world[o].translation[2])
            /\ location = original.location
            /\ matrix_world = original.matrix_world
            /\ call.again => vertices = original.vertices

\* The top left corner was made the anchor of an object off the origin, which
\* moved the mesh, and then made the anchor once more.
C13_Witness ==
    /\ call.op = "set_anchor"
    /\ PureTranslation(call.object)
    /\ call.anchor = "topleft"
    /\ call.again
    /\ vertices[call.object] # MeshOf(call.object)
    /\ matrix_world[call.object].translation[1] # R(0)
    /\ matrix_world[call.object].translation[2] # R(0)

====
